---- MODULE Spec2Model ----
(***************************************************************************)
(* Model of the RPC catalog updater: src/update.ts (the validating         *)
(* variant) and src/unnamed/part_000 (the variant without validation).     *)
(* One run of main() is a state machine over pc; the awaits and the file   *)
(* system calls are the step boundaries.                                   *)
(***************************************************************************)
EXTENDS Integers, Sequences, FiniteSets, TLC

VARIABLES
    upstream,         \* the registry document served at the fixed URL
    variant,          \* which script runs: "update" or "part_000"
    pc,               \* position of main()
    error,            \* what the catch block of main() received ("none" if nothing)
    env,              \* process state outside the pipeline's own data
    extraRpcs,        \* value returned by new Function(content)()
    result,           \* chainId -> eligible URLs (main, step 4)
    validatedResult,  \* chainId -> verified URLs (main, step 6)
    todo,             \* entries of Object.entries(result) still to validate
    concurrency,      \* parameter of the running checkRpcUrls call
    chunks,           \* checkRpcUrls: the batches
    chunkIdx,         \* checkRpcUrls: batch being awaited
    slots,            \* Promise.all: one slot per probe of the batch
    completed,        \* slot numbers of the batch in the order the probes resolved
    validUrls,        \* checkRpcUrls: accumulated valid URLs
    verdict,          \* history: per chain and eligible position, the probe's state
    issued,           \* history: the checkRpcUrl calls made, in order (chain, url)
    probeInput,       \* a response handed to checkRpcUrl on its own
    probeOutput,      \* what checkRpcUrl returned for it ("none" before the call)
    catalogFile,      \* rpc_providers.json
    versionFile,      \* providers_version
    runs,             \* history: number of runs started
    successes         \* history: number of runs that reached the end of main()

vars == <<upstream, variant, pc, error, env, extraRpcs, result, validatedResult,
          todo, concurrency, chunks, chunkIdx, slots, completed, validUrls,
          verdict, issued, probeInput, probeOutput, catalogFile, versionFile,
          runs, successes>>

----------------------------------------------------------------------------
(* Bounds *)

\* largest weight of a document: candidates plus malformed chain entries
MaxCands == 2
\* largest concurrency explored besides the one main() passes
MaxWidth == 2
\* number of consecutive runs in the multi-run specification
MaxRuns == 3

----------------------------------------------------------------------------
(* Strings are sequences of characters *)

StartsWith(s, prefix) ==
    /\ Len(s) >= Len(prefix)
    /\ SubSeq(s, 1, Len(prefix)) = prefix

Https == <<"h", "t", "t", "p", "s">>
UrlA == Https \o <<":", "a">>
UrlB == Https \o <<":", "b">>
UrlC == Https \o <<":", "c">>
UrlD == Https \o <<":", "d">>
UrlY == <<"h", "t", "t", "p", ":", "y">>
UrlUpper == <<"H", "T", "T", "P", "S", ":", "e">>
UrlOld == Https \o <<":", "o">>

----------------------------------------------------------------------------
(* Candidates: the elements of an `rpcs` array *)

StrCand(u) == [kind |-> "string", urlKind |-> "string", url |-> u, tracking |-> "absent"]
ObjCand(u, t) == [kind |-> "object", urlKind |-> "string", url |-> u, tracking |-> t]
\* { url: 7, tracking: "none" }
NumUrlCand == [kind |-> "object", urlKind |-> "number", url |-> <<>>, tracking |-> "none"]
\* { tracking: "none" }
NoUrlCand == [kind |-> "object", urlKind |-> "absent", url |-> <<>>, tracking |-> "none"]
NullCand == [kind |-> "null", urlKind |-> "absent", url |-> <<>>, tracking |-> "absent"]
NumCand == [kind |-> "number", urlKind |-> "absent", url |-> <<>>, tracking |-> "absent"]

Candidates ==
    { StrCand(UrlA), StrCand(UrlY), StrCand(UrlUpper),
      ObjCand(UrlB, "none"), ObjCand(UrlC, "yes"), ObjCand(UrlD, "absent"),
      NumUrlCand, NoUrlCand, NullCand, NumCand }

----------------------------------------------------------------------------
(* Chain entries and documents *)

NetIds == {"1", "137"}
\* Object.entries lists integer-like keys in ascending order
NetOrder == <<"1", "137">>

Absent == [kind |-> "absent", rpcsKind |-> "missing", rpcs |-> <<>>]
NullEntry == [kind |-> "null", rpcsKind |-> "missing", rpcs |-> <<>>]
ScalarEntry == [kind |-> "scalar", rpcsKind |-> "missing", rpcs |-> <<>>]
NoRpcsEntry == [kind |-> "object", rpcsKind |-> "missing", rpcs |-> <<>>]
NonListEntry == [kind |-> "object", rpcsKind |-> "nonlist", rpcs |-> <<>>]
ListEntry(l) == [kind |-> "object", rpcsKind |-> "list", rpcs |-> l]

MalformedEntries == {NullEntry, ScalarEntry, NoRpcsEntry, NonListEntry}

EntriesOfWeight(k) ==
    (IF k = 0 THEN {Absent} ELSE {})
    \cup (IF k = 1 THEN MalformedEntries ELSE {})
    \cup {ListEntry(l) : l \in [1..k -> Candidates]}

EntriesUpTo(k) == UNION {EntriesOfWeight(j) : j \in 0..k}

MapsUpTo(k) ==
    UNION { { [n \in NetIds |-> IF n = "1" THEN e1 ELSE e2] :
                e1 \in EntriesOfWeight(a), e2 \in EntriesUpTo(k - a) } : a \in 0..k }

EmptyMap == [n \in NetIds |-> Absent]

----------------------------------------------------------------------------
(* The raw document: a sequence of statements around one data literal *)

\* statements of the real registry module
ModuleStmts == <<"import", "exportDecl", "mergeConst", "exportDefault">>
\* an imperative statement in front of the data literal
LogicStmts == <<"effect", "exportDecl">>
\* text that does not compile
BrokenStmts == <<"effect", "exportDecl", "garbage">>
\* no declaration of extraRpcs at all
NoDeclStmts == <<"import", "exportDefault">>
\* a statement with an effect, then a call of a helper that is not defined
EffectThrowStmts == <<"effect", "callUnknown", "exportDecl">>

MapValue(m) == [kind |-> "map", map |-> m]
NullValue == [kind |-> "null", map |-> EmptyMap]
ScalarValue == [kind |-> "scalar", map |-> EmptyMap]
Undefined == [kind |-> "undefined", map |-> EmptyMap]

\* what the registry serves: the HTTP outcome and, when it is 200, the text
RawDoc(stmts, value) == [status |-> "ok", stmts |-> stmts, value |-> value]
Unavailable(status) == [status |-> status, stmts |-> <<>>, value |-> Undefined]

FailingDocs ==
    { RawDoc(BrokenStmts, MapValue(EmptyMap)),
      RawDoc(NoDeclStmts, MapValue(EmptyMap)),
      RawDoc(EffectThrowStmts, MapValue(EmptyMap)),
      RawDoc(ModuleStmts, NullValue),
      RawDoc(ModuleStmts, ScalarValue),
      Unavailable("status500"),
      Unavailable("transport") }

Documents ==
    { RawDoc(s, MapValue(m)) : s \in {ModuleStmts, LogicStmts}, m \in MapsUpTo(MaxCands) }
    \cup FailingDocs

\* the documents of the multi-run specification
RunDocs ==
    { RawDoc(ModuleStmts, MapValue([n \in NetIds |-> IF n = "1" THEN e1 ELSE e2])) :
        e1 \in {Absent, ListEntry(<<ObjCand(UrlB, "none")>>)},
        e2 \in {ListEntry(<<>>), ListEntry(<<StrCand(UrlA)>>)} }
    \cup { RawDoc(BrokenStmts, MapValue(EmptyMap)), Unavailable("status500") }

\* the documents of the specification with fairness
FairDocs ==
    RunDocs \cup
    { RawDoc(ModuleStmts, MapValue([n \in NetIds |->
        IF n = "1" THEN Absent ELSE ListEntry(<<StrCand(UrlA), ObjCand(UrlB, "none")>>)])) }

----------------------------------------------------------------------------
(* main, step 2: the text replacements *)

\* the four content.replace calls and the appended return statement
Transform(stmts) ==
    LET kept == SelectSeq(stmts, LAMBDA s : s \notin {"import", "exportDefault", "mergeConst"})
    IN  [i \in 1..Len(kept) |-> IF kept[i] = "exportDecl" THEN "decl" ELSE kept[i]]
        \o <<"return">>

(* main, step 3: new Function(content)().  The outcome is the value bound   *)
(* to extraRpcs or the error thrown, and whether a statement with an effect *)
(* has run.  Text that does not compile runs nothing.                       *)
RECURSIVE Run(_, _, _, _, _)
Run(code, i, bound, touched, value) ==
    IF i > Len(code)
    THEN [error |-> "none", touched |-> touched, value |-> Undefined]
    ELSE IF code[i] = "effect" THEN Run(code, i + 1, bound, TRUE, value)
    ELSE IF code[i] = "callUnknown"
         THEN [error |-> "ReferenceError", touched |-> touched, value |-> Undefined]
    ELSE IF code[i] = "decl" THEN Run(code, i + 1, TRUE, touched, value)
    ELSE IF code[i] = "return"
         THEN IF bound
              THEN [error |-> "none", touched |-> touched, value |-> value]
              ELSE [error |-> "ReferenceError", touched |-> touched, value |-> Undefined]
    ELSE Run(code, i + 1, bound, touched, value)

\* variation: text that does not compile is taken as an empty mapping
EvaluateLenient(code, value) ==
    IF \E i \in 1..Len(code) : code[i] = "garbage"
    THEN [error |-> "none", touched |-> FALSE, value |-> MapValue(EmptyMap)]
    ELSE Run(code, 1, FALSE, FALSE, value)

Evaluate(code, value) ==
    IF \E i \in 1..Len(code) : code[i] = "garbage"
    THEN [error |-> "SyntaxError", touched |-> FALSE, value |-> Undefined]
    ELSE Run(code, 1, FALSE, FALSE, value)

----------------------------------------------------------------------------
(* main, step 4: the eligible URLs of each chain *)

NullUrl == [kind |-> "null", text |-> <<>>]

\* variation: the tracking test applied to the objects of every chain
SelectedUrlTrackAll(chainId, rpc) ==
    IF rpc.kind = "string"
    THEN [kind |-> "string", text |-> rpc.url]
    ELSE IF rpc.kind = "object" /\ rpc.urlKind # "absent"
         THEN IF rpc.tracking = "none"
              THEN [kind |-> rpc.urlKind, text |-> rpc.url]
              ELSE NullUrl
         ELSE NullUrl

\* the value of the local `url` after the if/else-if of one loop iteration
SelectedUrl(chainId, rpc) ==
    IF rpc.kind = "string"
    THEN [kind |-> "string", text |-> rpc.url]
    ELSE IF rpc.kind = "object" /\ rpc.urlKind # "absent"
         THEN IF chainId = "1"
              THEN IF rpc.tracking = "none"
                   THEN [kind |-> rpc.urlKind, text |-> rpc.url]
                   ELSE NullUrl
              ELSE [kind |-> rpc.urlKind, text |-> rpc.url]
         ELSE NullUrl

\* JavaScript truthiness of that value (the number of the model is not 0)
Truthy(u) ==
    \/ u.kind = "string" /\ u.text # <<>>
    \/ u.kind = "number"

\* variation: an http URL is upgraded to https instead of being left out
FilterCandidateUpgrade(chainId, rpc) ==
    LET u == SelectedUrl(chainId, rpc)
    IN  IF ~Truthy(u) THEN [tag |-> "skip", url |-> <<>>]
        ELSE IF u.kind # "string" THEN [tag |-> "throw", url |-> <<>>]
        ELSE IF StartsWith(u.text, Https) THEN [tag |-> "push", url |-> u.text]
        ELSE IF StartsWith(u.text, <<"h", "t", "t", "p">>)
             THEN [tag |-> "push", url |-> Https \o SubSeq(u.text, 5, Len(u.text))]
        ELSE [tag |-> "skip", url |-> <<>>]

\* url && url.startsWith("https"): a truthy value that is no string has no startsWith
FilterCandidate(chainId, rpc) ==
    LET u == SelectedUrl(chainId, rpc)
    IN  IF ~Truthy(u) THEN [tag |-> "skip", url |-> <<>>]
        ELSE IF u.kind # "string" THEN [tag |-> "throw", url |-> <<>>]
        ELSE IF StartsWith(u.text, Https) THEN [tag |-> "push", url |-> u.text]
        ELSE [tag |-> "skip", url |-> <<>>]

\* the inner loop over rpcs
RECURSIVE FilterRpcs(_, _, _, _)
FilterRpcs(chainId, rpcs, i, urls) ==
    IF i > Len(rpcs) THEN [threw |-> FALSE, urls |-> urls]
    ELSE LET r == FilterCandidate(chainId, rpcs[i])
         IN  IF r.tag = "throw" THEN [threw |-> TRUE, urls |-> urls]
             ELSE IF r.tag = "push" THEN FilterRpcs(chainId, rpcs, i + 1, Append(urls, r.url))
             ELSE FilterRpcs(chainId, rpcs, i + 1, urls)

NoResult == [n \in {} |-> <<>>]

\* variation: a chain with no eligible URL is left out of result
RECURSIVE FilterChainsDropEmpty(_, _, _)
FilterChainsDropEmpty(doc, i, acc) ==
    IF i > Len(NetOrder) THEN [threw |-> FALSE, result |-> acc]
    ELSE LET chainId == NetOrder[i]
             config == doc[chainId]
         IN  IF config.kind = "absent" THEN FilterChainsDropEmpty(doc, i + 1, acc)
             ELSE IF config.kind = "null" THEN [threw |-> TRUE, result |-> acc]
             ELSE IF config.kind = "scalar" \/ config.rpcsKind # "list"
                  THEN FilterChainsDropEmpty(doc, i + 1, acc)
             ELSE LET f == FilterRpcs(chainId, config.rpcs, 1, <<>>)
                  IN  IF f.threw THEN [threw |-> TRUE, result |-> acc]
                      ELSE IF f.urls = <<>> THEN FilterChainsDropEmpty(doc, i + 1, acc)
                      ELSE FilterChainsDropEmpty(doc, i + 1, acc @@ (chainId :> f.urls))

\* the outer loop over Object.entries(extraRpcs); reading .rpcs of null throws
RECURSIVE FilterChains(_, _, _)
FilterChains(doc, i, acc) ==
    IF i > Len(NetOrder) THEN [threw |-> FALSE, result |-> acc]
    ELSE LET chainId == NetOrder[i]
             config == doc[chainId]
         IN  IF config.kind = "absent" THEN FilterChains(doc, i + 1, acc)
             ELSE IF config.kind = "null" THEN [threw |-> TRUE, result |-> acc]
             ELSE IF config.kind = "scalar" \/ config.rpcsKind # "list"
                  THEN FilterChains(doc, i + 1, acc)
             ELSE LET f == FilterRpcs(chainId, config.rpcs, 1, <<>>)
                  IN  IF f.threw THEN [threw |-> TRUE, result |-> acc]
                      ELSE FilterChains(doc, i + 1, acc @@ (chainId :> f.urls))

----------------------------------------------------------------------------
(* the same step in the script without validation (part_000) *)

\* variation: the objects of chain "1" are taken whatever their tracking
SelectedUrlPlainAnyTracking(chainId, rpc) ==
    IF rpc.kind = "string"
    THEN [kind |-> "string", text |-> rpc.url]
    ELSE IF rpc.kind = "object" /\ rpc.urlKind # "absent"
         THEN [kind |-> rpc.urlKind, text |-> rpc.url]
         ELSE NullUrl

\* the value of the local `url` after the if/else-if of one loop iteration
SelectedUrlPlain(chainId, rpc) ==
    IF rpc.kind = "string"
    THEN [kind |-> "string", text |-> rpc.url]
    ELSE IF rpc.kind = "object" /\ rpc.urlKind # "absent"
         THEN IF chainId = "1"
              THEN IF rpc.tracking = "none"
                   THEN [kind |-> rpc.urlKind, text |-> rpc.url]
                   ELSE NullUrl
              ELSE [kind |-> rpc.urlKind, text |-> rpc.url]
         ELSE NullUrl

\* url && url.startsWith("https")
FilterCandidatePlain(chainId, rpc) ==
    LET u == SelectedUrlPlain(chainId, rpc)
    IN  IF ~Truthy(u) THEN [tag |-> "skip", url |-> <<>>]
        ELSE IF u.kind # "string" THEN [tag |-> "throw", url |-> <<>>]
        ELSE IF StartsWith(u.text, Https) THEN [tag |-> "push", url |-> u.text]
        ELSE [tag |-> "skip", url |-> <<>>]

\* the inner loop over rpcs
RECURSIVE FilterRpcsPlain(_, _, _, _)
FilterRpcsPlain(chainId, rpcs, i, urls) ==
    IF i > Len(rpcs) THEN [threw |-> FALSE, urls |-> urls]
    ELSE LET r == FilterCandidatePlain(chainId, rpcs[i])
         IN  IF r.tag = "throw" THEN [threw |-> TRUE, urls |-> urls]
             ELSE IF r.tag = "push"
                  THEN FilterRpcsPlain(chainId, rpcs, i + 1, Append(urls, r.url))
             ELSE FilterRpcsPlain(chainId, rpcs, i + 1, urls)

\* the outer loop over Object.entries(extraRpcs)
RECURSIVE FilterChainsPlain(_, _, _)
FilterChainsPlain(doc, i, acc) ==
    IF i > Len(NetOrder) THEN [threw |-> FALSE, result |-> acc]
    ELSE LET chainId == NetOrder[i]
             config == doc[chainId]
         IN  IF config.kind = "absent" THEN FilterChainsPlain(doc, i + 1, acc)
             ELSE IF config.kind = "null" THEN [threw |-> TRUE, result |-> acc]
             ELSE IF config.kind = "scalar" \/ config.rpcsKind # "list"
                  THEN FilterChainsPlain(doc, i + 1, acc)
             ELSE LET f == FilterRpcsPlain(chainId, config.rpcs, 1, <<>>)
                  IN  IF f.threw THEN [threw |-> TRUE, result |-> acc]
                      ELSE FilterChainsPlain(doc, i + 1, acc @@ (chainId :> f.urls))

\* the filter loop of either script on the value of extraRpcs; a scalar has no entries
Eligible(v, x) ==
    IF x.kind # "map" THEN [threw |-> FALSE, result |-> NoResult]
    ELSE IF v = "update" THEN FilterChains(x.map, 1, NoResult)
    ELSE FilterChainsPlain(x.map, 1, NoResult)

\* Object.entries(result), in order
EntriesOf(m) == SelectSeq(NetOrder, LAMBDA n : n \in DOMAIN m)

----------------------------------------------------------------------------
(* checkRpcUrl: one probe *)

NoField == [kind |-> "absent", text |-> <<>>]
HexPrefix == <<"0", "x">>

\* what the endpoint does with the POST: the fetch rejects, or a response arrives
ProbeResponse(kind, ok, body, res) == [kind |-> kind, ok |-> ok, body |-> body, result |-> res]

Responses ==
    { ProbeResponse("transport", FALSE, "none", NoField),
      ProbeResponse("timeout", FALSE, "none", NoField),
      ProbeResponse("http", FALSE, "object", [kind |-> "string", text |-> <<"0", "x", "1">>]),
      ProbeResponse("http", TRUE, "invalid", NoField),
      ProbeResponse("http", TRUE, "null", NoField),
      ProbeResponse("http", TRUE, "object", NoField),
      ProbeResponse("http", TRUE, "object", [kind |-> "number", text |-> <<>>]),
      ProbeResponse("http", TRUE, "object", [kind |-> "string", text |-> <<>>]),
      ProbeResponse("http", TRUE, "object", [kind |-> "string", text |-> <<"1", "2">>]),
      ProbeResponse("http", TRUE, "object", [kind |-> "string", text |-> <<"0", "x", "1">>]) }

\* longest result string of the probe inputs
MaxText == 3

TextChars == {"0", "x", "1"}
Texts == UNION {[1..k -> TextChars] : k \in 0..MaxText}

\* what JSON can put in the result field: nothing, null, a number, an object, a string
ResultFields ==
    {[kind |-> k, text |-> <<>>] : k \in {"absent", "null", "number", "object"}}
        \cup {[kind |-> "string", text |-> t] : t \in Texts}

\* every outcome of the POST: no response, or a status with a body
ProbeInputs ==
    {ProbeResponse("transport", FALSE, "none", NoField),
     ProbeResponse("timeout", FALSE, "none", NoField)}
        \cup {ProbeResponse("http", ok, b, NoField) :
                 ok \in BOOLEAN, b \in {"invalid", "null", "scalar"}}
        \cup {ProbeResponse("http", ok, "object", r) : ok \in BOOLEAN, r \in ResultFields}

\* variation: the status of the response is not looked at
ProbeTryNoOkCheck(resp) ==
    IF resp.kind # "http" THEN "throw"
    ELSE IF resp.body = "invalid" THEN "throw"
    ELSE IF resp.body = "null" THEN "throw"
    ELSE IF /\ resp.result.kind = "string"
            /\ resp.result.text # <<>>
            /\ StartsWith(resp.result.text, HexPrefix)
         THEN "true"
    ELSE "false"

\* the body of the try block: "true", "false", or "throw" when an exception leaves it
ProbeTry(resp) ==
    IF resp.kind # "http" THEN "throw"
    ELSE IF ~resp.ok THEN "false"
    ELSE IF resp.body = "invalid" THEN "throw"
    ELSE IF resp.body = "null" THEN "throw"
    ELSE IF /\ resp.result.kind = "string"
            /\ resp.result.text # <<>>
            /\ StartsWith(resp.result.text, HexPrefix)
         THEN "true"
    ELSE "false"

\* variation: no try/catch around the probe
CheckRpcUrlNoCatch(resp) == ProbeTry(resp)

\* try { ... } catch (error) { return false; }
CheckRpcUrl(resp) ==
    LET r == ProbeTry(resp)
    IN  IF r = "throw" THEN "false" ELSE r

----------------------------------------------------------------------------
(* checkRpcUrls: batches *)

\* concurrency that main() passes
ValidationWidth == 30
\* default of the concurrency parameter
DefaultWidth == 10

Widths == (1..MaxWidth) \cup {ValidationWidth}

Min(a, b) == IF a < b THEN a ELSE b

\* variation: every batch is one URL wider than the concurrency
ChunkWide(urls, w) ==
    [k \in 1..((Len(urls) + w) \div (w + 1)) |->
        SubSeq(urls, (k - 1) * (w + 1) + 1, Min(k * (w + 1), Len(urls)))]

\* for (i = 0; i < urls.length; i += concurrency) chunks.push(urls.slice(i, i + concurrency))
Chunk(urls, w) ==
    [k \in 1..((Len(urls) + w - 1) \div w) |->
        SubSeq(urls, (k - 1) * w + 1, Min(k * w, Len(urls)))]

(* A started probe is "inflight" while fetch is pending: the abort timer of  *)
(* setTimeout is armed.  When a response with a successful status arrives,  *)
(* clearTimeout runs and the probe is in "body", awaiting response.json()   *)
(* with no timer.  "true" and "false" are the settled probes.               *)
Settled(slot) == slot.isValid \in {"true", "false"}

\* the stage of a probe at which the endpoint's response resp settles it
Stage(resp) == IF resp.kind = "http" /\ resp.ok THEN "body" ELSE "inflight"

\* controller.abort() of the timer: the pending fetch rejects
TimeoutResponse == ProbeResponse("timeout", FALSE, "none", NoField)

\* variation: a URL that occurs earlier in the batch is not probed again
StartSlotsOnce(chunk) ==
    [i \in 1..Len(chunk) |->
        [url |-> chunk[i],
         isValid |-> IF \E j \in 1..(i - 1) : chunk[j] = chunk[i] THEN "false" ELSE "inflight"]]

\* chunk.map(async (url) => ...): every probe of the batch is started
StartSlots(chunk) == [i \in 1..Len(chunk) |-> [url |-> chunk[i], isValid |-> "inflight"]]

\* variation: the valid URLs are pushed as the probes complete
CollectAsCompleted(results) ==
    LET valid == SelectSeq(completed, LAMBDA i : results[i].isValid = "true")
    IN  [k \in 1..Len(valid) |-> results[valid[k]].url]

\* for (const { url, isValid } of results) if (isValid) validUrls.push(url)
Collect(results) ==
    LET valid == SelectSeq(results, LAMBDA r : r.isValid = "true")
    IN  [k \in 1..Len(valid) |-> valid[k].url]

\* position in the eligible sequence of slot i of the batch being awaited
Position(i) == (chunkIdx - 1) * concurrency + i

\* the checkRpcUrl calls that starting the slots of a batch makes
Calls(chainId, started) ==
    LET s == SelectSeq(started, LAMBDA x : x.isValid = "inflight")
    IN  [i \in 1..Len(s) |-> [chain |-> chainId, url |-> s[i].url]]

MarkInflight(v, chainId, idx, w, chunk) ==
    [v EXCEPT ![chainId] =
        [p \in DOMAIN v[chainId] |->
            IF p > (idx - 1) * w /\ p <= (idx - 1) * w + Len(chunk)
            THEN "inflight" ELSE v[chainId][p]]]

----------------------------------------------------------------------------
(* providers_version: text of a number *)

DigitChars == <<"0", "1", "2", "3", "4", "5", "6", "7", "8", "9">>

IsDigit(c) == \E d \in 1..10 : DigitChars[d] = c
DigitValue(c) == (CHOOSE d \in 1..10 : DigitChars[d] = c) - 1

RECURSIVE ParseDigits(_, _, _)
ParseDigits(text, i, acc) ==
    IF i > Len(text) THEN acc
    ELSE ParseDigits(text, i + 1, acc * 10 + DigitValue(text[i]))

RECURSIVE ParseHex(_, _, _)
ParseHex(text, i, acc) ==
    IF i > Len(text) THEN acc
    ELSE ParseHex(text, i + 1, acc * 16 + DigitValue(text[i]))

\* white space around a numeric literal is ignored
RECURSIVE TrimLeft(_)
TrimLeft(text) ==
    IF text # <<>> /\ Head(text) = " " THEN TrimLeft(Tail(text)) ELSE text

RECURSIVE TrimRight(_)
TrimRight(text) ==
    IF text # <<>> /\ text[Len(text)] = " "
    THEN TrimRight(SubSeq(text, 1, Len(text) - 1))
    ELSE text

AllDigits(text) == \A i \in 1..Len(text) : IsDigit(text[i])

RECURSIVE LeadingDigits(_)
LeadingDigits(text) ==
    IF text # <<>> /\ IsDigit(Head(text))
    THEN <<Head(text)>> \o LeadingDigits(Tail(text))
    ELSE <<>>

\* variation: the digits at the start of the text are read and the rest is ignored
NumberOfLeading(text) ==
    LET d == LeadingDigits(TrimLeft(text))
    IN  IF d = <<>> THEN [nan |-> TRUE, val |-> 0]
        ELSE [nan |-> FALSE, val |-> ParseDigits(d, 1, 0)]

\* Number(text): blank text is 0, decimal digits and 0x literals are read, the rest is NaN
NumberOf(text) ==
    LET core == TrimRight(TrimLeft(text))
    IN  IF AllDigits(core)
        THEN [nan |-> FALSE, val |-> ParseDigits(core, 1, 0)]
        ELSE IF Len(core) >= 3 /\ core[1] = "0" /\ core[2] = "x"
                /\ AllDigits(SubSeq(core, 3, Len(core)))
        THEN [nan |-> FALSE, val |-> ParseHex(SubSeq(core, 3, Len(core)), 1, 0)]
        ELSE [nan |-> TRUE, val |-> 0]

\* versionData || 0
OrZero(x) == IF x.nan \/ x.val = 0 THEN 0 ELSE x.val

\* `${newVersion}`
RECURSIVE Format(_)
Format(n) ==
    IF n < 10 THEN <<DigitChars[n + 1]>>
    ELSE Format(n \div 10) \o <<DigitChars[(n % 10) + 1]>>

NoVersionFile == [exists |-> FALSE, readable |-> FALSE, text |-> <<>>]
VersionText(t) == [exists |-> TRUE, readable |-> TRUE, text |-> t]

\* variation: the file is never read
CurrentVersionNoRead(file) == 0

\* the value the version step computes from the file
CurrentVersion(file) ==
    IF file.exists /\ file.readable THEN OrZero(NumberOf(file.text)) ELSE 0

\* a file written by fs.writeFileSync keeps its mode; a new file is readable
WrittenVersion(file, n) ==
    [exists |-> TRUE, readable |-> (IF file.exists THEN file.readable ELSE TRUE), text |-> Format(n)]

----------------------------------------------------------------------------
(* rpc_providers.json *)

OldCatalog == ("1" :> <<UrlOld>>)

----------------------------------------------------------------------------
(* Initial states *)

Variants == {"update", "part_000"}

NoValue == Undefined

InitialVersionFiles == {NoVersionFile, VersionText(<<"9">>)}

\* longest content of the version file in the specification of the version step
MaxVersionLen == 3

VersionChars == {"0", "9", "x", " "}

\* providers_version as a run can find it: absent, unreadable, or any short text
VersionFiles ==
    {NoVersionFile, [exists |-> TRUE, readable |-> FALSE, text |-> <<"9">>]}
        \cup {VersionText(t) : t \in UNION {[1..k -> VersionChars] : k \in 0..MaxVersionLen}}

\* documents of the specification of the version step
FileDocs ==
    { RawDoc(ModuleStmts, MapValue([n \in NetIds |->
        IF n = "1" THEN Absent ELSE ListEntry(<<StrCand(UrlA)>>)])),
      Unavailable("status500") }

InitRun ==
    /\ pc = "fetch"
    /\ error = "none"
    /\ env = "clean"
    /\ extraRpcs = NoValue
    /\ result = NoResult
    /\ validatedResult = NoResult
    /\ todo = <<>>
    /\ concurrency = 0
    /\ chunks = <<>>
    /\ chunkIdx = 0
    /\ slots = <<>>
    /\ completed = <<>>
    /\ validUrls = <<>>
    /\ verdict = NoResult
    /\ issued = <<>>
    /\ probeOutput = "none"
    /\ catalogFile = OldCatalog
    /\ runs = 1
    /\ successes = 0

Init ==
    /\ InitRun
    /\ probeInput = TimeoutResponse
    /\ upstream \in Documents
    /\ variant \in Variants
    /\ versionFile \in InitialVersionFiles

InitRuns ==
    /\ InitRun
    /\ probeInput = TimeoutResponse
    /\ upstream \in RunDocs
    /\ variant \in Variants
    /\ versionFile = NoVersionFile

----------------------------------------------------------------------------
(* Steps of main() *)

proberVars == <<concurrency, chunks, chunkIdx, slots, completed, validUrls>>
fileVars == <<catalogFile, versionFile>>
runVars == <<upstream, variant, runs>>
probeVars == <<probeInput, probeOutput>>

\* catch (error) { console.error(...); process.exit(1); }
Throw(e) ==
    /\ pc' = "failed"
    /\ error' = e

\* await fetch(url); if (!response.ok) throw ...; await response.text()
Fetch ==
    /\ pc = "fetch"
    /\ IF upstream.status = "ok"
       THEN pc' = "extract" /\ error' = error
       ELSE Throw(IF upstream.status = "status500" THEN "FetchError" ELSE "TransportError")
    /\ UNCHANGED <<env, extraRpcs, result, validatedResult, todo, verdict, issued, successes>>
    /\ UNCHANGED <<proberVars, fileVars, runVars, probeVars>>

\* content.replace x 4, new Function(content)(), Object.keys(extraRpcs)
Extract ==
    /\ pc = "extract"
    /\ LET ev == Evaluate(Transform(upstream.stmts), upstream.value)
       IN  /\ env' = IF ev.touched THEN "touched" ELSE env
           /\ IF ev.error # "none"
              THEN Throw(ev.error) /\ extraRpcs' = extraRpcs
              ELSE IF ev.value.kind \in {"null", "undefined"}
              THEN Throw("TypeError") /\ extraRpcs' = extraRpcs
              ELSE /\ pc' = "filter"
                   /\ error' = error
                   /\ extraRpcs' = ev.value
    /\ UNCHANGED <<result, validatedResult, todo, verdict, issued, successes>>
    /\ UNCHANGED <<proberVars, fileVars, runVars, probeVars>>

\* the position after a chain of the validation loop, or after the filter
AfterChain(rest) == IF rest = <<>> THEN "write" ELSE "validate"

\* the loop over Object.entries(extraRpcs); a scalar has no entries
Filter ==
    /\ pc = "filter"
    /\ LET f == Eligible(variant, extraRpcs)
       IN  IF f.threw
           THEN /\ Throw("TypeError")
                /\ UNCHANGED <<result, todo, verdict>>
           ELSE /\ result' = f.result
                /\ verdict' = [n \in DOMAIN f.result |->
                                 [p \in 1..Len(f.result[n]) |-> "idle"]]
                /\ error' = error
                /\ IF variant = "update"
                   THEN /\ todo' = EntriesOf(f.result)
                        /\ pc' = AfterChain(EntriesOf(f.result))
                   ELSE /\ todo' = todo
                        /\ pc' = "write"
    /\ UNCHANGED <<env, extraRpcs, validatedResult, issued, successes>>
    /\ UNCHANGED <<proberVars, fileVars, runVars, probeVars>>

\* one iteration of the validation loop up to its await: a chain without
\* eligible URLs gets [], otherwise checkRpcUrls starts its first batch
ValidateChain ==
    /\ pc = "validate"
    /\ todo # <<>>
    /\ LET chainId == Head(todo)
           urls == result[chainId]
       IN  IF Len(urls) = 0
           THEN /\ validatedResult' = validatedResult @@ (chainId :> <<>>)
                /\ todo' = Tail(todo)
                /\ pc' = AfterChain(Tail(todo))
                /\ UNCHANGED <<proberVars, verdict, issued>>
           ELSE \E w \in Widths :
                /\ concurrency' = w
                /\ chunks' = Chunk(urls, w)
                /\ chunkIdx' = 1
                /\ slots' = StartSlots(Chunk(urls, w)[1])
                /\ completed' = <<>>
                /\ validUrls' = <<>>
                /\ verdict' = MarkInflight(verdict, chainId, 1, w, Chunk(urls, w)[1])
                /\ issued' = issued \o Calls(chainId, StartSlots(Chunk(urls, w)[1]))
                /\ pc' = "await"
                /\ UNCHANGED <<validatedResult, todo>>
    /\ UNCHANGED <<error, env, extraRpcs, result, successes>>
    /\ UNCHANGED <<fileVars, runVars, probeVars>>

\* variation: a valid URL is pushed to validUrls as soon as its probe settles
SettlePush(i, resp) ==
    /\ LET isValid == CheckRpcUrl(resp)
       IN  /\ slots' = [slots EXCEPT ![i].isValid = isValid]
           /\ completed' = Append(completed, i)
           /\ verdict' = [verdict EXCEPT ![Head(todo)][Position(i)] = isValid]
           /\ validUrls' = IF isValid = "true" THEN Append(validUrls, slots[i].url)
                            ELSE validUrls
           /\ UNCHANGED <<pc, error>>
    /\ UNCHANGED <<env, extraRpcs, result, validatedResult, todo, issued, successes>>
    /\ UNCHANGED <<concurrency, chunks, chunkIdx>>
    /\ UNCHANGED <<fileVars, runVars, probeVars>>

\* the probe of slot i settles with resp: const isValid = await checkRpcUrl(url)
Settle(i, resp) ==
    /\ LET isValid == CheckRpcUrl(resp)
       IN  IF isValid = "throw"
           THEN /\ Throw("ProbeError")
                /\ UNCHANGED <<slots, completed, verdict>>
           ELSE /\ slots' = [slots EXCEPT ![i].isValid = isValid]
                /\ completed' = Append(completed, i)
                /\ verdict' = [verdict EXCEPT ![Head(todo)][Position(i)] = isValid]
                /\ UNCHANGED <<pc, error>>
    /\ UNCHANGED <<env, extraRpcs, result, validatedResult, todo, issued, successes>>
    /\ UNCHANGED <<concurrency, chunks, chunkIdx, validUrls>>
    /\ UNCHANGED <<fileVars, runVars, probeVars>>

\* a response with a successful status arrives: clearTimeout(timeoutId), then
\* await response.json()
ProbeHeaders(i) ==
    /\ pc = "await"
    /\ i \in DOMAIN slots
    /\ slots[i].isValid = "inflight"
    /\ slots' = [slots EXCEPT ![i].isValid = "body"]
    /\ UNCHANGED <<pc, error, env, extraRpcs, result, validatedResult, todo, successes>>
    /\ UNCHANGED <<concurrency, chunks, chunkIdx, completed, validUrls, verdict, issued>>
    /\ UNCHANGED <<fileVars, runVars, probeVars>>

\* the endpoint ends the probe of slot i: the fetch rejects or answers with a
\* failure status, or the body of a successful response is complete
ProbeResolve(i) ==
    /\ pc = "await"
    /\ i \in DOMAIN slots
    /\ \E resp \in Responses :
         /\ resp.kind # "timeout"
         /\ slots[i].isValid = Stage(resp)
         /\ Settle(i, resp)

\* the timer fires while the fetch is pending: setTimeout(() => controller.abort())
ProbeTimeout(i) ==
    /\ pc = "await"
    /\ i \in DOMAIN slots
    /\ slots[i].isValid = "inflight"
    /\ Settle(i, TimeoutResponse)

\* Promise.all resolves: collect the batch, then start the next batch or
\* return validUrls to main, which stores them
JoinBatch ==
    /\ pc = "await"
    /\ \A i \in DOMAIN slots : Settled(slots[i])
    /\ LET collected == validUrls \o Collect(slots)
           chainId == Head(todo)
       IN  IF chunkIdx < Len(chunks)
           THEN /\ validUrls' = collected
                /\ chunkIdx' = chunkIdx + 1
                /\ slots' = StartSlots(chunks[chunkIdx + 1])
                /\ completed' = <<>>
                /\ verdict' = MarkInflight(verdict, chainId, chunkIdx + 1, concurrency,
                                           chunks[chunkIdx + 1])
                /\ issued' = issued \o Calls(chainId, StartSlots(chunks[chunkIdx + 1]))
                /\ UNCHANGED <<pc, validatedResult, todo, concurrency, chunks>>
           ELSE /\ validatedResult' = validatedResult @@ (chainId :> collected)
                /\ todo' = Tail(todo)
                /\ pc' = AfterChain(Tail(todo))
                /\ validUrls' = <<>>
                /\ chunks' = <<>>
                /\ chunkIdx' = 0
                /\ slots' = <<>>
                /\ concurrency' = 0
                /\ UNCHANGED <<completed, verdict, issued>>
    /\ UNCHANGED <<error, env, extraRpcs, result, successes>>
    /\ UNCHANGED <<fileVars, runVars, probeVars>>

\* the mapping that is serialised: validatedResult, or result in part_000
Published == IF variant = "update" THEN validatedResult ELSE result

\* variation: a failed write of the catalog is ignored and the run goes on
WriteCatalogSwallow ==
    /\ pc = "write"
    /\ \E fails \in BOOLEAN :
         /\ catalogFile' = IF fails THEN catalogFile ELSE Published
         /\ pc' = "version"
         /\ error' = error
    /\ UNCHANGED <<env, extraRpcs, result, validatedResult, todo, verdict, issued, successes>>
    /\ UNCHANGED <<versionFile, proberVars, runVars, probeVars>>

\* fs.writeFileSync(outputPath, jsonContent + "\n"); a failed write leaves the file
WriteCatalog ==
    /\ pc = "write"
    /\ \E fails \in BOOLEAN :
         IF fails
         THEN Throw("IOError") /\ catalogFile' = catalogFile
         ELSE /\ catalogFile' = Published
              /\ pc' = "version"
              /\ error' = error
    /\ UNCHANGED <<env, extraRpcs, result, validatedResult, todo, verdict, issued, successes>>
    /\ UNCHANGED <<versionFile, proberVars, runVars, probeVars>>

\* read the version (0 when absent, unreadable or not a number), write version + 1
UpdateVersion ==
    /\ pc = "version"
    /\ \E fails \in BOOLEAN :
         IF fails
         THEN Throw("IOError") /\ UNCHANGED <<versionFile, successes>>
         ELSE /\ versionFile' = WrittenVersion(versionFile, CurrentVersion(versionFile) + 1)
              /\ successes' = successes + 1
              /\ pc' = "done"
              /\ error' = error
    /\ UNCHANGED <<env, extraRpcs, result, validatedResult, todo, verdict, issued>>
    /\ UNCHANGED <<catalogFile, proberVars, runVars, probeVars>>

\* the script is started again: a new process, the two files as they were left
NewRun ==
    /\ pc \in {"done", "failed"}
    /\ runs < MaxRuns
    /\ runs' = runs + 1
    /\ upstream' \in RunDocs
    /\ variant' \in Variants
    /\ pc' = "fetch"
    /\ error' = "none"
    /\ env' = "clean"
    /\ extraRpcs' = NoValue
    /\ result' = NoResult
    /\ validatedResult' = NoResult
    /\ todo' = <<>>
    /\ concurrency' = 0
    /\ chunks' = <<>>
    /\ chunkIdx' = 0
    /\ slots' = <<>>
    /\ completed' = <<>>
    /\ validUrls' = <<>>
    /\ verdict' = NoResult
    /\ issued' = <<>>
    /\ UNCHANGED <<fileVars, successes, probeVars>>

ExitCode == IF pc = "done" THEN 0 ELSE IF pc = "failed" THEN 1 ELSE -1

Next ==
    \/ Fetch
    \/ Extract
    \/ Filter
    \/ ValidateChain
    \/ \E i \in 1..ValidationWidth : ProbeHeaders(i)
    \/ \E i \in 1..ValidationWidth : ProbeResolve(i)
    \/ \E i \in 1..ValidationWidth : ProbeTimeout(i)
    \/ JoinBatch
    \/ WriteCatalog
    \/ UpdateVersion

NextRuns ==
    \/ Next
    \/ NewRun

Spec == Init /\ [][Next]_vars

SpecRuns == InitRuns /\ [][NextRuns]_vars

(* What is guaranteed to happen: the steps of the script itself and the     *)
(* firing of an armed timer.  Nothing obliges an endpoint to send a status  *)
(* line or to finish a body, so ProbeHeaders and ProbeResolve are not fair. *)
Fairness ==
    /\ WF_vars(Fetch)
    /\ WF_vars(Extract)
    /\ WF_vars(Filter)
    /\ WF_vars(ValidateChain)
    /\ WF_vars(JoinBatch)
    /\ WF_vars(WriteCatalog)
    /\ WF_vars(UpdateVersion)
    /\ \A i \in 1..ValidationWidth : WF_vars(ProbeTimeout(i))

\* one run over the small documents, with the guarantees above
InitFair ==
    /\ InitRun
    /\ probeInput = TimeoutResponse
    /\ upstream \in FairDocs
    /\ variant \in Variants
    /\ versionFile = NoVersionFile

FairSpec == InitFair /\ [][Next]_vars /\ Fairness

\* one run on every state of the version file
InitFiles ==
    /\ InitRun
    /\ probeInput = TimeoutResponse
    /\ upstream \in FileDocs
    /\ variant \in Variants
    /\ versionFile \in VersionFiles

SpecFiles == InitFiles /\ [][Next]_vars

----------------------------------------------------------------------------
(* checkRpcUrl on its own: one call on every outcome of the POST *)

\* return value of checkRpcUrl(url) when the endpoint behaves as probeInput
ApplyProbe ==
    /\ probeOutput = "none"
    /\ probeOutput' = CheckRpcUrl(probeInput)
    /\ UNCHANGED <<pc, error, env, extraRpcs, result, validatedResult, todo>>
    /\ UNCHANGED <<verdict, issued, successes, probeInput>>
    /\ UNCHANGED <<proberVars, fileVars, runVars>>

InitProbe ==
    /\ InitRun
    /\ upstream = Unavailable("status500")
    /\ variant = "update"
    /\ versionFile = NoVersionFile
    /\ probeInput \in ProbeInputs

NextProbe == ApplyProbe

SpecProbe == InitProbe /\ [][NextProbe]_vars

----------------------------------------------------------------------------
(* Vocabulary of the properties *)

\* the data literal of the served document
Doc == upstream.value.map

CandidatesOf(n) == Doc[n].rpcs

IsListEntry(e) == e.kind = "object" /\ e.rpcsKind = "list"
IsMalformedEntry(e) == e.kind # "absent" /\ ~IsListEntry(e)

\* a bare string, or an object with a string-valued url field
HasStringUrl(c) == c.kind \in {"string", "object"} /\ c.urlKind = "string"

\* the URLs declared by the candidates of chain n
CandidateUrls(n) ==
    {CandidatesOf(n)[j].url : j \in {k \in 1..Len(CandidatesOf(n)) : HasStringUrl(CandidatesOf(n)[k])}}

Range(seq) == {seq[i] : i \in 1..Len(seq)}

\* the URLs of the candidates with an https URL, in candidate order
HttpsUrls(cands) ==
    LET sel == SelectSeq(cands, LAMBDA c : HasStringUrl(c) /\ StartsWith(c.url, Https))
    IN  [k \in 1..Len(sel) |-> sel[k].url]

\* the elements of urls at the positions whose probe was recorded as successful
Verified(urls, v) ==
    LET idx == SelectSeq([p \in 1..Len(urls) |-> p], LAMBDA p : v[p] = "true")
    IN  [k \in 1..Len(idx) |-> urls[idx[k]]]

\* main() is past the filter loop
Filtered ==
    \/ pc \in {"validate", "await", "write", "version", "done"}
    \/ pc = "failed" /\ error = "IOError"

\* this run has replaced the catalog file
Wrote == pc \in {"version", "done"}

\* no candidate of the document is an object whose url is not a string
NoNonStringUrl ==
    \A n \in NetIds : \A j \in 1..Len(CandidatesOf(n)) :
        CandidatesOf(n)[j].urlKind \in {"string", "absent"}

----------------------------------------------------------------------------
(* C1: on chain "1" every eligible URL, and every URL of the written       *)
(* catalog, is the url of an object candidate whose tracking is "none";    *)
(* bare strings and other tracking values never get there.                 *)
TrackedNone(u) ==
    \E j \in 1..Len(CandidatesOf("1")) :
        /\ CandidatesOf("1")[j].kind = "object"
        /\ CandidatesOf("1")[j].tracking = "none"
        /\ CandidatesOf("1")[j].url = u

C1_OnlyTrackingNoneOnChain1 ==
    /\ "1" \in DOMAIN result => \A u \in Range(result["1"]) : TrackedNone(u)
    /\ (Wrote /\ "1" \in DOMAIN catalogFile) => \A u \in Range(catalogFile["1"]) : TrackedNone(u)

(* C2: for a chain other than "1" the eligible sequence is the https URLs  *)
(* of the candidates in candidate order, whatever their tracking, and the  *)
(* catalog written by the validating script lists those whose probe        *)
(* succeeded, in the same order.                                           *)
C2_OtherChainsHttpsAndVerified ==
    \A n \in NetIds \ {"1"} :
        /\ Filtered => (n \in DOMAIN result <=> IsListEntry(Doc[n]))
        /\ n \in DOMAIN result => result[n] = HttpsUrls(CandidatesOf(n))
        /\ (Wrote /\ variant = "update") =>
              /\ n \in DOMAIN catalogFile <=> IsListEntry(Doc[n])
              /\ n \in DOMAIN catalogFile =>
                    catalogFile[n] = Verified(HttpsUrls(CandidatesOf(n)), verdict[n])

C2_Witness ==
    /\ pc = "done"
    /\ variant = "update"
    /\ CandidatesOf("137") = <<ObjCand(UrlC, "yes"), StrCand(UrlY)>>
    /\ catalogFile["137"] = <<UrlC>>

(* C3: every URL held under chain n in the eligible mapping, in the        *)
(* validated mapping, in the running checkRpcUrls call and in the written  *)
(* catalog is the url of a candidate of n's own list in the document.      *)
C3_NoFabrication ==
    /\ \A n \in DOMAIN result : n \in NetIds /\ Range(result[n]) \subseteq CandidateUrls(n)
    /\ \A n \in DOMAIN validatedResult :
          n \in NetIds /\ Range(validatedResult[n]) \subseteq CandidateUrls(n)
    /\ pc = "await" =>
          /\ Range(validUrls) \subseteq CandidateUrls(Head(todo))
          /\ \A i \in DOMAIN slots : slots[i].url \in CandidateUrls(Head(todo))
    /\ Wrote => \A n \in DOMAIN catalogFile :
          n \in NetIds /\ Range(catalogFile[n]) \subseteq CandidateUrls(n)

C3_Witness ==
    /\ pc = "done"
    /\ variant = "update"
    /\ catalogFile = ("1" :> <<UrlB>>) @@ ("137" :> <<UrlA>>)

(* C4: when the fetch fails (status 500, transport) or the document cannot *)
(* be evaluated (text that does not compile, a call of a missing helper,   *)
(* no extraRpcs, extraRpcs null), main() never gets past the extraction,   *)
(* its only end is exit status 1, and the catalog file and the version     *)
(* file hold what they held before the run.                                *)
DocumentLevelFailure ==
    \/ upstream.status # "ok"
    \/ \E i \in 1..Len(upstream.stmts) : upstream.stmts[i] \in {"garbage", "callUnknown"}
    \/ \A i \in 1..Len(upstream.stmts) : upstream.stmts[i] \notin {"exportDecl", "decl"}
    \/ upstream.value.kind \in {"null", "undefined"}

TrueCount(v) == Cardinality({p \in DOMAIN v : v[p] = "true"})

C5_ProbeFailuresIsolated ==
    /\ error # "ProbeError"
    /\ pc = "failed" => error \in {"FetchError", "TransportError", "SyntaxError",
                                   "ReferenceError", "TypeError", "IOError"}
    /\ \A n \in DOMAIN validatedResult :
          /\ Len(validatedResult[n]) = TrueCount(verdict[n])
          /\ \A p \in DOMAIN verdict[n] :
                /\ verdict[n][p] \in {"true", "false"}
                /\ verdict[n][p] = "true" => result[n][p] \in Range(validatedResult[n])
          /\ \A u \in Range(validatedResult[n]) :
                \E p \in DOMAIN verdict[n] : result[n][p] = u /\ verdict[n][p] = "true"
    /\ (pc = "done" /\ variant = "update") =>
          ExitCode = 0 /\ DOMAIN validatedResult = DOMAIN result

C5_Witness ==
    /\ pc = "done"
    /\ variant = "update"
    /\ ExitCode = 0
    /\ "137" \in DOMAIN result
    /\ Len(result["137"]) = 2
    /\ verdict["137"] = <<"false", "false">>
    /\ catalogFile["137"] = <<>>

(* C6: starting without a version file, the file holds the number of runs  *)
(* that reached the end of main(): the first writes 1, the next 2, and a   *)
(* step never lowers the number.                                           *)
PersistedVersion == IF versionFile.exists THEN NumberOf(versionFile.text).val ELSE 0

C6_VersionCountsSuccessfulRuns ==
    /\ [](/\ PersistedVersion = successes
          /\ versionFile.exists <=> successes > 0
          /\ versionFile.exists => versionFile.text = Format(successes))
    /\ [][PersistedVersion' >= PersistedVersion]_vars

C6_Witness ==
    /\ runs = 3
    /\ successes = 2
    /\ pc = "done"
    /\ versionFile.text = <<"2">>

(* C7: what checkRpcUrls has collected so far, and what it returns, is the *)
(* subsequence of the eligible sequence at the positions whose probe       *)
(* succeeded, in eligible order, whatever the concurrency and the order in *)
(* which the probes of a batch completed.                                  *)
C7_OrderRestored ==
    /\ pc = "await" =>
          LET n == Head(todo)
              before == (chunkIdx - 1) * concurrency
          IN  validUrls = Verified(SubSeq(result[n], 1, before), verdict[n])
    /\ \A n \in DOMAIN validatedResult :
          validatedResult[n] = Verified(result[n], verdict[n])

C7_Witness ==
    /\ pc = "write"
    /\ "137" \in DOMAIN validatedResult
    /\ validatedResult["137"] = <<UrlA, UrlB>>
    /\ completed = <<2, 1>>

(* C8: a chain whose value is not a mapping with a list `rpcs` (null, a    *)
(* scalar, no rpcs, rpcs that is no list) gets no entry, the other chains  *)
(* get theirs, and main() does not end in its catch block.                 *)
C8_MalformedEntrySkipped ==
    \A n \in NetIds :
        (upstream.status = "ok" /\ upstream.value.kind = "map"
            /\ IsMalformedEntry(Doc[n]) /\ NoNonStringUrl) =>
            /\ ~(pc = "failed" /\ error = "TypeError")
            /\ Filtered =>
                  /\ n \notin DOMAIN result
                  /\ \A m \in NetIds \ {n} : IsListEntry(Doc[m]) => m \in DOMAIN result

(* C9: a candidate that is neither a string nor an object with a string    *)
(* url is left out, the other candidates are filtered as usual, and main() *)
(* does not end in its catch block.                                        *)
WellFormed(cands) == SelectSeq(cands, HasStringUrl)

C9_MalformedCandidateDropped ==
    (upstream.status = "ok" /\ upstream.value.kind = "map"
        /\ \A n \in NetIds : Doc[n].kind # "null") =>
        /\ ~(pc = "failed" /\ error = "TypeError")
        /\ \A n \in DOMAIN result :
              result[n] = FilterRpcs(n, WellFormed(CandidatesOf(n)), 1, <<>>).urls

(* C10: the extraction runs none of the document's statements: the process *)
(* state outside the extracted mapping is what it was before the run.      *)
C10_ExtractionHasNoEffect == env = "clean"

(* C11: every started probe is ended by its own timer when the endpoint    *)
(* does not answer, so the probes of a chain all settle and the run ends,  *)
(* whatever the endpoints do.                                              *)
C11_EveryProbeEndsByItsTimeout ==
    /\ (pc = "await") ~> (pc # "await")
    /\ <>(pc \in {"done", "failed"})

(* C12: the probes in flight are never more than the concurrency of the   *)
(* running checkRpcUrls call (at most 30 in main), they all belong to the  *)
(* chain being validated, and a probe of a later batch is started only     *)
(* when every probe of the earlier batches has settled.                    *)
Unsettled(n) == {p \in DOMAIN verdict[n] : verdict[n][p] = "inflight"}

BatchOf(p) == (p - 1) \div concurrency

C12_BoundedConcurrency ==
    /\ \A n \in DOMAIN verdict : Unsettled(n) # {} => pc = "await" /\ n = Head(todo)
    /\ pc # "await" => slots = <<>>
    /\ pc = "await" =>
          LET n == Head(todo)
          IN  /\ concurrency \in Widths
              /\ Cardinality({i \in DOMAIN slots : ~Settled(slots[i])}) <= concurrency
              /\ Cardinality(Unsettled(n)) <= concurrency
              /\ Cardinality(Unsettled(n)) <= ValidationWidth
              /\ \A p, q \in DOMAIN verdict[n] :
                    (BatchOf(p) < BatchOf(q) /\ verdict[n][q] # "idle")
                        => verdict[n][p] \in {"true", "false"}

C12_Witness ==
    /\ pc = "await"
    /\ concurrency = 1
    /\ chunkIdx = 2
    /\ verdict[Head(todo)] = <<"true", "inflight">>
    /\ slots[1].isValid = "inflight"

(* C13: validUrls changes only in a step taken when every probe of the     *)
(* batch has settled, and the settling of a probe changes its own slot of  *)
(* the batch result and no other.                                          *)
C13_AppendOnlyAfterJoin ==
    [][ /\ validUrls' # validUrls => \A i \in DOMAIN slots : Settled(slots[i])
        /\ (pc = "await" /\ pc' = "await" /\ chunkIdx' = chunkIdx /\ slots' # slots) =>
              /\ DOMAIN slots' = DOMAIN slots
              /\ Cardinality({i \in DOMAIN slots : slots'[i] # slots[i]}) = 1
              /\ \A i \in DOMAIN slots : slots'[i].url = slots[i].url
              /\ validUrls' = validUrls ]_vars

C13_Witness ==
    /\ pc = "await"
    /\ Len(slots) = 2
    /\ slots[1].isValid = "inflight"
    /\ slots[2].isValid = "true"
    /\ validUrls = <<>>

(* C14: a chain whose rpcs list is present is a key of result once the     *)
(* filter loop is done, also when none of its candidates is eligible; a    *)
(* chain whose eligible sequence is empty is written to the catalog with   *)
(* an empty list, and no probe is ever started for it.                     *)
EmptyEligible(n) == n \in DOMAIN result /\ result[n] = <<>>

C14_EmptyChainKeptAndNotProbed ==
    \A n \in NetIds :
        /\ (Filtered /\ IsListEntry(Doc[n])) => n \in DOMAIN result
        /\ (Filtered /\ IsListEntry(Doc[n]) /\ n # "1" /\ HttpsUrls(CandidatesOf(n)) = <<>>)
              => EmptyEligible(n)
        /\ EmptyEligible(n) =>
              /\ Wrote => (n \in DOMAIN catalogFile /\ catalogFile[n] = <<>>)
              /\ n \in DOMAIN validatedResult => validatedResult[n] = <<>>
              /\ \A k \in 1..Len(issued) : issued[k].chain # n
              /\ \A p \in DOMAIN verdict[n] : verdict[n][p] = "idle"

C14_Witness ==
    /\ pc = "done"
    /\ variant = "update"
    /\ CandidatesOf("137") = <<StrCand(UrlY)>>
    /\ catalogFile = [n \in NetIds |-> IF n = "137" THEN <<>> ELSE <<UrlB>>]
    /\ Len(issued) = 1

(* C15: checkRpcUrl returns true exactly when the response has a success  *)
(* status and its decoded body is an object whose result is a string that  *)
(* begins with "0x"; on every other response, and when the request fails   *)
(* or is aborted, it returns false and raises nothing.                     *)
BeginsWith0x(t) == Len(t) >= 2 /\ t[1] = "0" /\ t[2] = "x"

GoodResponse(resp) ==
    /\ resp.kind = "http"
    /\ resp.ok
    /\ resp.body = "object"
    /\ resp.result.kind = "string"
    /\ BeginsWith0x(resp.result.text)

C15_ProbeVerdict ==
    probeOutput # "none" =>
        /\ probeOutput \in {"true", "false"}
        /\ probeOutput = "true" <=> GoodResponse(probeInput)

C15_Witness ==
    /\ probeOutput = "true"
    /\ probeInput = ProbeResponse("http", TRUE, "object",
                                  [kind |-> "string", text |-> <<"0", "x", "1">>])

(* C16: when providers_version exists and cannot be read, or its content  *)
(* is not a number, the version step that writes the file writes 1, leaves *)
(* the catalog this run wrote in place and the run exits with 0; the only  *)
(* other way out of the step is a failed write of the version file.        *)
Blank(t) == \A i \in 1..Len(t) : t[i] = " "

DecimalLiteral(t) == t # <<>> /\ \A i \in 1..Len(t) : t[i] \in {"0", "9"}

HexLiteral(t) ==
    /\ Len(t) >= 3
    /\ t[1] = "0"
    /\ t[2] = "x"
    /\ \A i \in 3..Len(t) : t[i] \in {"0", "9"}

\* t is a numeric literal, or nothing, between white space
ParsesAsNumber(t) ==
    \E i \in 1..(Len(t) + 1) : \E j \in (i - 1)..Len(t) :
        /\ Blank(SubSeq(t, 1, i - 1))
        /\ Blank(SubSeq(t, j + 1, Len(t)))
        /\ LET core == SubSeq(t, i, j)
           IN  core = <<>> \/ DecimalLiteral(core) \/ HexLiteral(core)

BadVersionFile(f) == f.exists /\ (~f.readable \/ ~ParsesAsNumber(f.text))

C16_BadVersionFileRecovered ==
    [][ (pc = "version" /\ BadVersionFile(versionFile)) =>
          \/ /\ pc' = "done"
             /\ error' = "none"
             /\ versionFile'.exists
             /\ versionFile'.text = <<"1">>
             /\ catalogFile' = Published
             /\ catalogFile' = catalogFile
          \/ /\ pc' = "failed"
             /\ error' = "IOError"
             /\ versionFile' = versionFile ]_vars

C16_Witness ==
    /\ pc = "done"
    /\ ExitCode = 0
    /\ versionFile = [exists |-> TRUE, readable |-> FALSE, text |-> <<"1">>]
    /\ catalogFile = Published
    /\ catalogFile # OldCatalog

(* C17: the version file changes only in the version step of a run that   *)
(* has already replaced the catalog with its own result, and the count of  *)
(* successful runs moves with it; a run that fails in the version step     *)
(* leaves the version as it was, keeps the catalog it wrote and exits      *)
(* with 1.                                                                 *)
C17_VersionAfterCatalog ==
    [][ /\ (versionFile' # versionFile \/ successes' # successes) =>
              /\ pc = "version"
              /\ pc' = "done"
              /\ catalogFile = Published
              /\ catalogFile' = catalogFile
              /\ successes' = successes + 1
        /\ (pc = "version" /\ pc' = "failed") =>
              /\ versionFile' = versionFile
              /\ catalogFile' = Published
              /\ ExitCode' = 1
        /\ (pc = "write" /\ pc' = "failed") =>
              /\ versionFile' = versionFile
              /\ catalogFile' = catalogFile
              /\ ExitCode' = 1 ]_vars

C17_Witness ==
    /\ pc = "failed"
    /\ error = "IOError"
    /\ ExitCode = 1
    /\ catalogFile = Published
    /\ catalogFile # OldCatalog
    /\ versionFile = VersionText(<<"9">>)

(* C18: the checkRpcUrl calls made for a chain are, in order, the          *)
(* elements of its eligible sequence probed so far, one call for each      *)
(* occurrence; when the validating script is past the validation loop the  *)
(* calls of every chain are exactly its eligible sequence, a settled probe *)
(* is never started again, and the other script makes no call.             *)
IssuedFor(n) ==
    LET c == SelectSeq(issued, LAMBDA x : x.chain = n)
    IN  [k \in 1..Len(c) |-> c[k].url]

Validated ==
    /\ variant = "update"
    /\ \/ pc \in {"write", "version", "done"}
       \/ pc = "failed" /\ error = "IOError"

C18_OneProbePerOccurrence ==
    /\ \A k \in 1..Len(issued) : issued[k].chain \in DOMAIN result
    /\ \A n \in DOMAIN result :
          /\ Len(IssuedFor(n)) <= Len(result[n])
          /\ IssuedFor(n) = SubSeq(result[n], 1, Len(IssuedFor(n)))
          /\ Validated => IssuedFor(n) = result[n]
          /\ \A p \in DOMAIN verdict[n] : verdict[n][p] # "idle" <=> p <= Len(IssuedFor(n))
    /\ variant = "part_000" => issued = <<>>

C18_Witness ==
    /\ pc = "done"
    /\ variant = "update"
    /\ "137" \in DOMAIN result
    /\ result["137"] = <<UrlA, UrlA>>
    /\ issued = <<[chain |-> "137", url |-> UrlA], [chain |-> "137", url |-> UrlA]>>
    /\ verdict["137"] = <<"false", "true">>
    /\ catalogFile["137"] = <<UrlA>>

(* C19: on the same value of extraRpcs the filter loops of the two         *)
(* scripts fail together and otherwise give the same eligible mapping, so  *)
(* the mapping a run has computed is the one the other script computes;    *)
(* the catalog the validating script writes has the chains of the catalog  *)
(* the other script writes and, for each chain, a subsequence of its list, *)
(* the whole list when every probe of the chain succeeded.                 *)
RECURSIVE IsSubseq(_, _)
IsSubseq(s, t) ==
    IF s = <<>> THEN TRUE
    ELSE IF t = <<>> THEN FALSE
    ELSE IF Head(s) = Head(t) THEN IsSubseq(Tail(s), Tail(t))
    ELSE IsSubseq(s, Tail(t))

OtherVariant == IF variant = "update" THEN "part_000" ELSE "update"

\* what the script without validation writes for this document
PlainCatalog == Eligible("part_000", extraRpcs).result

C19_VariantsAgree ==
    pc \notin {"fetch", "extract"} =>
        /\ Eligible("update", extraRpcs).threw = Eligible("part_000", extraRpcs).threw
        /\ (pc = "failed" /\ error = "TypeError" /\ extraRpcs # NoValue)
              => Eligible(OtherVariant, extraRpcs).threw
        /\ Filtered =>
              /\ ~Eligible(OtherVariant, extraRpcs).threw
              /\ result = Eligible(OtherVariant, extraRpcs).result
        /\ (Wrote /\ variant = "part_000") => catalogFile = PlainCatalog
        /\ (Wrote /\ variant = "update") =>
              /\ DOMAIN catalogFile = DOMAIN PlainCatalog
              /\ \A n \in DOMAIN catalogFile :
                    /\ IsSubseq(catalogFile[n], PlainCatalog[n])
                    /\ (\A p \in DOMAIN verdict[n] : verdict[n][p] = "true")
                          => catalogFile[n] = PlainCatalog[n]

C19_Witness ==
    /\ pc = "done"
    /\ variant = "update"
    /\ PlainCatalog = [n \in NetIds |-> IF n = "1" THEN <<UrlB>> ELSE <<UrlA>>]
    /\ catalogFile = [n \in NetIds |-> IF n = "1" THEN <<UrlB>> ELSE <<>>]
    /\ CandidatesOf("1") = <<ObjCand(UrlB, "none")>>

====
